---- MODULE Spec2Model ----
(***************************************************************************)
(* A model of pyPolyampholyte's class polyampholyte (src/polyampholyte.py).*)
(*                                                                         *)
(* Floating point numbers are modelled exactly.  A float is a record       *)
(*   [kind, n, d]   kind "fin": the rational n/d (d > 0)                   *)
(*                  kind "nan", "pinf", "ninf": numpy's nan, +inf, -inf    *)
(* A net charge, a sum of terms c/S / (1 + 10^e), is kept as the finite    *)
(* map from each exponent e to the sum of the coefficients c that carry    *)
(* it; it is evaluated numerically where every exponent is an integer.     *)
(***************************************************************************)
EXTENDS Integers, Sequences, FiniteSets, TLC

VARIABLES table, inst, pre, caller, last

vars == <<table, inst, pre, caller, last>>

(***************************************************************************)
(* Bounds of the model.                                                    *)
(***************************************************************************)
MaxAb == 1          \* largest entry of an abundance list
MaxSeqLen == 2      \* longest amino acid sequence
PHMax == 3          \* pH arguments are drawn from 0..PHMax
MaxPoints == 3      \* data_points is drawn from -1..MaxPoints

(***************************************************************************)
(* Generic helpers.                                                        *)
(***************************************************************************)
Abs(x) == IF x < 0 THEN -x ELSE x

RECURSIVE GCD(_, _)
GCD(a, b) == IF b = 0 THEN a ELSE GCD(b, a % b)

RECURSIVE Pow10(_)
Pow10(k) == IF k = 0 THEN 1 ELSE 10 * Pow10(k - 1)

RECURSIVE SumInts(_)
SumInts(s) == IF s = <<>> THEN 0 ELSE Head(s) + SumInts(Tail(s))

Zeros(k) == [i \in 1..(IF k > 0 THEN k ELSE 0) |-> 0]

Take(s, k) == SubSeq(s, 1, IF k < Len(s) THEN k ELSE Len(s))

(***************************************************************************)
(* Floats.                                                                 *)
(***************************************************************************)
NaN == [kind |-> "nan", n |-> 0, d |-> 1]
PInf == [kind |-> "pinf", n |-> 0, d |-> 1]
NInf == [kind |-> "ninf", n |-> 0, d |-> 1]
Fin(n, d) == [kind |-> "fin", n |-> n, d |-> d]

\* a reduced rational with a positive denominator
Rat(n, d) ==
    LET g == GCD(Abs(n), Abs(d))
        s == IF d < 0 THEN -1 ELSE 1
    IN  Fin(s * (n \div g), s * (d \div g))

\* numpy's float division a / b of two integers
FDivInt(a, b) ==
    IF b # 0 THEN Fin(IF b < 0 THEN -a ELSE a, Abs(b))
    ELSE IF a = 0 THEN NaN
    ELSE IF a > 0 THEN PInf ELSE NInf

\* integer times float
FMulInt(k, x) ==
    CASE x.kind = "fin" -> Fin(k * x.n, x.d)
      [] x.kind = "nan" -> NaN
      [] OTHER -> IF k = 0 THEN NaN
                  ELSE IF (k > 0) = (x.kind = "pinf") THEN PInf ELSE NInf

FAdd(x, y) ==
    CASE x.kind = "nan" \/ y.kind = "nan" -> NaN
      [] x.kind = "fin" /\ y.kind = "fin" ->
            IF x.d = y.d THEN Fin(x.n + y.n, x.d)
            ELSE Fin(x.n * y.d + y.n * x.d, x.d * y.d)
      [] x.kind = "fin" -> y
      [] y.kind = "fin" -> x
      [] OTHER -> IF x.kind = y.kind THEN x ELSE NaN

\* np.sum over an ndarray of floats: nan and inf propagate
RECURSIVE NpSum(_)
NpSum(s) == IF s = <<>> THEN Fin(0, 1) ELSE FAdd(Head(s), NpSum(Tail(s)))

\* np.sum over a pandas Series dispatches to Series.sum, which skips nan
SeriesSum(s) == NpSum(SelectSeq(s, LAMBDA x : x.kind # "nan"))

FEq(x, y) ==
    /\ x.kind = y.kind
    /\ x.kind = "fin" => x.n * y.d = y.n * x.d

(***************************************************************************)
(* group_properties.amino_acids: the table of group properties.  Its rows  *)
(* are in the order the constructor's documentation gives, with the rows   *)
(* Hyp and Hyl before the two termini.  The numbers are whole-number       *)
(* stand-ins; which pKa and which residue masses are undefined varies with *)
(* the table chosen in Init.                                               *)
(***************************************************************************)
index ==
    <<"D", "N", "T", "S", "E", "Q", "G", "A", "C", "V", "M", "I", "L", "Y",
      "F", "H", "K", "R", "P", "W", "Hyp", "Hyl", "N_term", "C_term">>

NGroups == Len(index)

Rows == 1..NGroups

NStandard == 20

RowOf(key) == CHOOSE g \in Rows : index[g] = key

Schemes == {"pka_bjellqvist", "pka_ipc_protein", "pka_emboss"}

charge_indicator ==
    [g \in Rows |->
        IF index[g] \in {"D", "E", "C", "Y", "C_term"} THEN -1
        ELSE IF index[g] \in {"H", "K", "R", "Hyl", "N_term"} THEN 1
        ELSE 0]

molar_mass ==
    <<133, 132, 119, 105, 147, 146, 75, 89, 121, 117, 149, 131, 131, 181,
      165, 155, 146, 174, 115, 204, 131, 162, 1, 17>>

\* the tables the model ranges over: gap says that pka_emboss has no value
\* for Hyl, noTermMass that the termini have no molar_mass_residue
Tables ==
    {[gap |-> FALSE, noTermMass |-> FALSE],
     [gap |-> TRUE, noTermMass |-> FALSE],
     [gap |-> FALSE, noTermMass |-> TRUE]}

Undefined == [def |-> FALSE, v |-> 0]

Defined(v) == [def |-> TRUE, v |-> v]

pKa(t, scheme, g) ==
    IF charge_indicator[g] = 0 THEN Undefined
    ELSE IF t.gap /\ scheme = "pka_emboss" /\ index[g] = "Hyl" THEN Undefined
    ELSE IF charge_indicator[g] < 0
         THEN Defined(IF scheme = "pka_ipc_protein" /\ index[g] = "D" THEN 2 ELSE 1)
         ELSE Defined(IF scheme = "pka_emboss" /\ index[g] = "K" THEN 1 ELSE 2)

molar_mass_residue(t, g) ==
    IF g > NGroups - 2
    THEN IF t.noTermMass THEN Undefined ELSE Defined(molar_mass[g])
    ELSE Defined(molar_mass[g] - 18)

(***************************************************************************)
(* polyampholyte.__init__ and initialize_dataset.                          *)
(***************************************************************************)
None == [some |-> FALSE, v |-> <<>>]

Some(v) == [some |-> TRUE, v |-> v]

NoInstance ==
    [alive |-> FALSE, abundance_input |-> <<>>, abundance_norm |-> <<>>,
     mass_percent |-> <<>>, pka_data |-> "", IEP_dataset |-> <<>>,
     amino_acid_sequence |-> None, number_of_residues |-> None]

\* a count that ignores case
count_ignoring_case(sequence, key) ==
    Len(SelectSeq(sequence, LAMBDA ch : ch = key \/ (ch = "d" /\ key = "D")))

\* str.count(key) for a key of one character
count(sequence, key) ==
    Len(SelectSeq(sequence, LAMBDA ch : ch = key))

\* lines 54-60: the abundance list after abundance.extend(...)
extended(abundance) ==
    abundance \o Zeros(NGroups - Len(abundance))

\* lines 63-71: the abundance list built from a sequence
counted(sequence) ==
    [i \in 1..NStandard |-> count(sequence, index[i])] \o <<0, 0, 1, 1>>

\* lines 81-83
normalized(abundance_input) ==
    LET total == SumInts(SubSeq(abundance_input, 1, Len(abundance_input) - 2))
    IN  [g \in Rows |-> FDivInt(abundance_input[g], total)]

\* lines 85-91
mass_fractions(abundance_input) ==
    LET weighted == [g \in Rows |-> Fin(abundance_input[g] * molar_mass[g], 1)]
        total == SeriesSum(weighted)
    IN  [g \in Rows |-> FDivInt(weighted[g].n, total.n)]

\* lines 102-103: the rows whose pKa is not nan under the scheme
data_mask(t, scheme) ==
    SelectSeq([g \in Rows |-> g], LAMBDA g : pKa(t, scheme, g).def)

\* a selection that rejects a call with both inputs
protein_input_exclusive(kwargs) ==
    IF kwargs.hasAbundance /\ kwargs.hasSequence THEN "none"
    ELSE IF kwargs.hasAbundance THEN "abundance"
    ELSE IF kwargs.hasSequence THEN "sequence"
    ELSE "none"

\* lines 54, 61, 73: the branch the keyword arguments select
protein_input(kwargs) ==
    IF kwargs.hasAbundance THEN "abundance"
    ELSE IF kwargs.hasSequence THEN "sequence"
    ELSE "none"

\* the outcome of polyampholyte(mode, **kwargs): the exception raised ("" for
\* none), the instance, and the contents of the caller's abundance list
initialize_dataset(t, mode, kwargs) ==
    IF mode # "protein"
    THEN [exc |-> "ValueError", inst |-> NoInstance, list |-> kwargs.abundance]
    ELSE IF protein_input(kwargs) = "none"
    THEN [exc |-> "ValueError", inst |-> NoInstance, list |-> kwargs.abundance]
    ELSE IF protein_input(kwargs) = "abundance"
            /\ Len(extended(kwargs.abundance)) # NGroups
    THEN [exc |-> "ValueError", inst |-> NoInstance,
          list |-> extended(kwargs.abundance)]
    ELSE
        LET fromList == protein_input(kwargs) = "abundance"
            abundance == IF fromList THEN extended(kwargs.abundance)
                         ELSE counted(kwargs.sequence)
            scheme == IF kwargs.hasPka THEN kwargs.pka_data ELSE "pka_bjellqvist"
        IN  [exc |-> "",
             inst |->
                [alive |-> TRUE,
                 abundance_input |-> abundance,
                 abundance_norm |-> normalized(abundance),
                 mass_percent |-> mass_fractions(abundance),
                 pka_data |-> scheme,
                 IEP_dataset |-> data_mask(t, scheme),
                 amino_acid_sequence |->
                    IF fromList THEN None ELSE Some(kwargs.sequence),
                 number_of_residues |->
                    IF fromList THEN None ELSE Some(<<Len(kwargs.sequence)>>)],
             list |-> IF fromList THEN abundance ELSE kwargs.abundance]

(***************************************************************************)
(* The inputs the model draws from.                                        *)
(***************************************************************************)
Alphabet == {"D", "K", "d"}

SequenceInputs == UNION {[1..k -> Alphabet] : k \in 0..MaxSeqLen}

\* the sequences passed together with an abundance list
IgnoredSequences == {<<>>, <<"K", "D">>}

\* abundance lists: prefixes of lists that are zero except at D, N, K and,
\* together, Hyl and the two termini
FullList(d, n, k, hyl) ==
    [g \in 1..(NGroups + 1) |->
        CASE g = RowOf("D") -> d
          [] g = RowOf("N") -> n
          [] g = RowOf("K") -> k
          [] g = RowOf("Hyl") -> hyl
          [] g \in {RowOf("N_term"), RowOf("C_term")} -> hyl
          [] OTHER -> 0]

ListLengths == {0, 2, NGroups - 2, NGroups, NGroups + 1}

AbundanceInputs ==
    {Take(FullList(d, n, k, hyl), len) :
        d \in 0..MaxAb, n \in 0..1, k \in 0..MaxAb, hyl \in 0..1,
        len \in ListLengths}

Modes == {"protein", "polymer"}

PHs == 0..PHMax

(***************************************************************************)
(* calc_charge and calc_charge_curve.                                      *)
(***************************************************************************)
\* one group's contribution at one pH (a reduced rational):
\*   charge_indicator * abundance_norm / (1 + 10**(charge_indicator * (pH - pKa)))
\* kept as the coefficient c / S and the exponent e
ChargeTerm(ci, abn, pka, pH) ==
    LET none == [kind |-> "nan", c |-> 0, S |-> 1, e |-> Fin(0, 1)]
        num == FMulInt(ci, abn)
    IN  IF ~pka.def \/ num.kind = "nan" THEN none
        ELSE IF num.kind # "fin" THEN [none EXCEPT !.kind = num.kind]
        ELSE [kind |-> "fin", c |-> num.n, S |-> num.d,
              e |-> Fin(ci * (pH.n - pka.v * pH.d), pH.d)]

RECURSIVE SumC(_, _)
SumC(terms, e) ==
    IF terms = <<>> THEN 0
    ELSE (IF Head(terms).e = e THEN Head(terms).c ELSE 0) + SumC(Tail(terms), e)

ZeroCharge == [kind |-> "fin", S |-> 1, coef |-> {}]

\* np.sum over the terms of one pH
ChargeSum(terms) ==
    LET kinds == {terms[j].kind : j \in DOMAIN terms}
        coef == {x \in {[e |-> terms[j].e, c |-> SumC(terms, terms[j].e)] :
                            j \in DOMAIN terms} : x.c # 0}
    IN  IF "nan" \in kinds \/ {"pinf", "ninf"} \subseteq kinds
        THEN [ZeroCharge EXCEPT !.kind = "nan"]
        ELSE IF "pinf" \in kinds THEN [ZeroCharge EXCEPT !.kind = "pinf"]
        ELSE IF "ninf" \in kinds THEN [ZeroCharge EXCEPT !.kind = "ninf"]
        ELSE IF coef = {} THEN ZeroCharge
        ELSE [kind |-> "fin", S |-> terms[1].S, coef |-> coef]

\* lines 131-136
calc_charge(t, self, pH) ==
    ChargeSum([j \in DOMAIN self.IEP_dataset |->
        ChargeTerm(charge_indicator[self.IEP_dataset[j]],
                   self.abundance_norm[self.IEP_dataset[j]],
                   pKa(t, self.pka_data, self.IEP_dataset[j]),
                   pH)])

\* np.linspace(start, stop, num): num samples, the last one stop itself
linspace(start, stop, num) ==
    [i \in 1..num |->
        IF num = 1 THEN Rat(start, 1)
        ELSE IF i = num THEN Rat(stop, 1)
        ELSE Rat(start * (num - 1) + (i - 1) * (stop - start), num - 1)]

\* a sum that uses the first pH for every sample
SumAxis1_first_row(matrix) == [i \in DOMAIN matrix |-> ChargeSum(matrix[1])]

\* a check of the range as well
linspace_raises_validating(start, stop, num) == start > stop \/ num < 2

\* np.linspace raises ValueError for a negative number of samples only
linspace_raises(start, stop, num) == num < 0

\* np.sum(matrix, axis=1): one sum per row
SumAxis1(matrix) == [i \in DOMAIN matrix |-> ChargeSum(matrix[i])]

\* lines 158-166: the exception raised ("" for none) and the two rows
calc_charge_curve(t, self, ph_range, data_points) ==
    IF linspace_raises(ph_range[1], ph_range[2], data_points)
    THEN [exc |-> "ValueError", pH |-> <<>>, curve |-> <<>>]
    ELSE
        LET pH == linspace(ph_range[1], ph_range[2], data_points)
            matrix ==
                [i \in DOMAIN pH |->
                    [j \in DOMAIN self.IEP_dataset |->
                        ChargeTerm(charge_indicator[self.IEP_dataset[j]],
                                   self.abundance_norm[self.IEP_dataset[j]],
                                   pKa(t, self.pka_data, self.IEP_dataset[j]),
                                   pH[i])]]
        IN  [exc |-> "", pH |-> pH, curve |-> SumAxis1(matrix)]

(***************************************************************************)
(* The sign of a charge at a whole-number pH.                              *)
(***************************************************************************)
\* the largest exponent: pKa values are 1 and 2, pH values 0..PHMax
MaxExp == IF PHMax - 1 > 2 THEN PHMax - 1 ELSE 2

RECURSIVE Denominator(_)
Denominator(k) == IF k < 0 THEN 1 ELSE (1 + Pow10(k)) * Denominator(k - 1)

\* Denominator(MaxExp) / (1 + 10^e)
Fraction(e) ==
    IF e >= 0 THEN Denominator(MaxExp) \div (1 + Pow10(e))
    ELSE (Denominator(MaxExp) \div (1 + Pow10(-e))) * Pow10(-e)

RECURSIVE Numerator(_)
Numerator(coef) ==
    IF coef = {} THEN 0
    ELSE LET x == CHOOSE y \in coef : TRUE
         IN  x.c * Fraction(x.e.n) + Numerator(coef \ {x})

\* -1, 0 or 1; 2 for nan
Sign(q) ==
    CASE q.kind = "nan" -> 2
      [] q.kind = "pinf" -> 1
      [] q.kind = "ninf" -> -1
      [] OTHER -> LET v == Numerator(q.coef)
                  IN  IF v > 0 THEN 1 ELSE IF v < 0 THEN -1 ELSE 0

(***************************************************************************)
(* calc_IEP.                                                               *)
(***************************************************************************)
\* scipy.optimize.brentq(f, a, b), by its contract: the set of its possible
\* outcomes.  It raises ValueError where f is nan or f(a) and f(b) have the
\* same sign, returns an end where f is zero there, and else a point of a
\* unit interval of [a, b] across which f changes sign.
brentq(t, self, a, b) ==
    LET f(x) == Sign(calc_charge(t, self, Rat(x, 1)))
        raise == [exc |-> "ValueError", x |-> NaN]
    IN  IF f(a) = 2 \/ f(b) = 2 THEN {raise}
        ELSE IF f(a) = 0 THEN {[exc |-> "", x |-> Rat(a, 1)]}
        ELSE IF f(b) = 0 THEN {[exc |-> "", x |-> Rat(b, 1)]}
        ELSE IF f(a) = f(b) THEN {raise}
        ELSE {[exc |-> "", x |-> Rat(h, 2)] : h \in
                {h \in (2 * a)..(2 * b) :
                    \E k \in a..(b - 1) :
                        /\ 2 * k <= h /\ h <= 2 * k + 2
                        /\ f(k) * f(k + 1) <= 0}}

\* a calc_IEP that answers the lower limit where no root is bracketed
calc_IEP_no_sentinel(t, self, ph_range) ==
    {IF o.exc = "ValueError" THEN Rat(ph_range[1], 1) ELSE o.x :
        o \in brentq(t, self, ph_range[1], ph_range[2])}

\* lines 186-190: the set of possible results
calc_IEP(t, self, ph_range) ==
    {IF o.exc = "ValueError" THEN NaN ELSE o.x :
        o \in brentq(t, self, ph_range[1], ph_range[2])}

(***************************************************************************)
(* calc_molar_mass and calc_mean_residue_mw.                               *)
(***************************************************************************)
AsFloat(cell) == IF cell.def THEN Fin(cell.v, 1) ELSE NaN

FMul(x, y) ==
    CASE x.kind = "nan" \/ y.kind = "nan" -> NaN
      [] x.kind = "fin" /\ y.kind = "fin" -> Fin(x.n * y.n, x.d * y.d)
      [] x.kind = "fin" -> FMulInt(x.n, y)
      [] y.kind = "fin" -> FMulInt(y.n, x)
      [] OTHER -> IF x.kind = y.kind THEN PInf ELSE NInf

\* a calc_molar_mass without the assertion
calc_molar_mass_unchecked(t, self) ==
    [exc |-> "",
     molar_mass |-> SeriesSum([g \in Rows |->
         FMulInt(self.abundance_input[g], AsFloat(molar_mass_residue(t, g)))])]

\* lines 193-198
calc_molar_mass(t, self) ==
    IF ~self.amino_acid_sequence.some
    THEN [exc |-> "AssertionError", molar_mass |-> NaN]
    ELSE [exc |-> "",
          molar_mass |-> SeriesSum([g \in Rows |->
              FMulInt(self.abundance_input[g], AsFloat(molar_mass_residue(t, g)))])]

\* lines 219-236
calc_mean_residue_mw(t, self) ==
    LET mw_dataset ==
            SelectSeq([g \in Rows |-> g], LAMBDA g : molar_mass_residue(t, g).def)
        residues == SubSeq(mw_dataset, 1, Len(mw_dataset) - 2)
        mean_residue_mw ==
            NpSum([j \in DOMAIN residues |->
                FMul(AsFloat(molar_mass_residue(t, residues[j])),
                     self.abundance_norm[residues[j]])])
        termini ==
            NpSum([j \in 1..2 |->
                FMulInt(molar_mass[NGroups - 2 + j],
                        self.abundance_norm[NGroups - 2 + j])])
    IN  IF self.number_of_residues.some
        THEN FAdd(mean_residue_mw, termini)
        ELSE mean_residue_mw

(***************************************************************************)
(* The state machine: one caller, one instance.  last records the latest   *)
(* call, its arguments and what it returned or raised; pre is the instance *)
(* as it was before that call; caller is the caller's abundance list.      *)
(***************************************************************************)
Idle ==
    [op |-> "none", exc |-> "", mode |-> "", hasAbundance |-> FALSE,
     hasSequence |-> FALSE, abundance |-> <<>>, lo |-> 0, hi |-> 0, n |-> 0,
     charge |-> ZeroCharge, pH |-> <<>>, curve |-> <<>>, value |-> NaN]

\* an argument that may be left out of the call
Optional(values, default) ==
    {[has |-> FALSE, v |-> default]} \cup {[has |-> TRUE, v |-> x] : x \in values}

Init ==
    /\ table \in Tables
    /\ inst = NoInstance
    /\ pre = NoInstance
    /\ caller = <<>>
    /\ last = Idle

\* polyampholyte(mode, **kwargs), once, at the start
Construct ==
    /\ last.op = "none"
    /\ ~inst.alive
    /\ \E mode \in Modes,
          ab \in Optional(AbundanceInputs, <<>>),
          pk \in Optional(Schemes, "pka_bjellqvist") :
       \E sq \in Optional(IF ab.has THEN IgnoredSequences ELSE SequenceInputs, <<>>) :
        LET kwargs == [hasAbundance |-> ab.has, abundance |-> ab.v,
                       hasSequence |-> sq.has, sequence |-> sq.v,
                       hasPka |-> pk.has, pka_data |-> pk.v]
            r == initialize_dataset(table, mode, kwargs)
        IN  /\ inst' = r.inst
            /\ caller' = r.list
            /\ last' = [Idle EXCEPT !.op = "polyampholyte", !.exc = r.exc,
                                    !.mode = mode,
                                    !.hasAbundance = ab.has,
                                    !.hasSequence = sq.has,
                                    !.abundance = ab.v]
    /\ pre' = inst
    /\ UNCHANGED table

\* the caller takes the result of the latest call and goes on; an exception
\* of the constructor ends the run
Continue ==
    /\ last.op # "none"
    /\ inst.alive
    /\ last' = Idle
    /\ pre' = inst
    /\ UNCHANGED <<table, inst, caller>>

\* instance.pka_data = scheme
SetPkaData ==
    /\ last.op = "none"
    /\ inst.alive
    /\ \E scheme \in Schemes :
        inst' = [inst EXCEPT !.pka_data = scheme]
    /\ pre' = inst
    /\ last' = [Idle EXCEPT !.op = "pka_data"]
    /\ UNCHANGED <<table, caller>>

CalcCharge ==
    /\ last.op = "none"
    /\ inst.alive
    /\ \E pH \in PHs :
        last' = [Idle EXCEPT !.op = "calc_charge", !.lo = pH,
                             !.charge = calc_charge(table, inst, Rat(pH, 1))]
    /\ pre' = inst
    /\ UNCHANGED <<table, inst, caller>>

CurveRanges == {<<0, PHMax>>, <<PHMax, 0>>, <<0, 1>>, <<1, 1>>}

CalcChargeCurve ==
    /\ last.op = "none"
    /\ inst.alive
    /\ \E ph_range \in CurveRanges, n \in -1..MaxPoints :
        LET r == calc_charge_curve(table, inst, ph_range, n)
        IN  last' = [Idle EXCEPT !.op = "calc_charge_curve", !.exc = r.exc,
                                 !.lo = ph_range[1], !.hi = ph_range[2], !.n = n,
                                 !.pH = r.pH, !.curve = r.curve]
    /\ pre' = inst
    /\ UNCHANGED <<table, inst, caller>>

CalcIEP ==
    /\ last.op = "none"
    /\ inst.alive
    /\ \E lo \in PHs, hi \in PHs :
        /\ lo <= hi
        /\ \E IEP \in calc_IEP(table, inst, <<lo, hi>>) :
            last' = [Idle EXCEPT !.op = "calc_IEP", !.lo = lo, !.hi = hi,
                                 !.value = IEP]
    /\ pre' = inst
    /\ UNCHANGED <<table, inst, caller>>

CalcMolarMass ==
    /\ last.op = "none"
    /\ inst.alive
    /\ LET r == calc_molar_mass(table, inst)
       IN  last' = [Idle EXCEPT !.op = "calc_molar_mass", !.exc = r.exc,
                                !.value = r.molar_mass]
    /\ pre' = inst
    /\ UNCHANGED <<table, inst, caller>>

CalcMeanResidueMw ==
    /\ last.op = "none"
    /\ inst.alive
    /\ last' = [Idle EXCEPT !.op = "calc_mean_residue_mw",
                            !.value = calc_mean_residue_mw(table, inst)]
    /\ pre' = inst
    /\ UNCHANGED <<table, inst, caller>>

Next ==
    \/ Construct
    \/ Continue
    \/ SetPkaData
    \/ CalcCharge
    \/ CalcChargeCurve
    \/ CalcIEP
    \/ CalcMolarMass
    \/ CalcMeanResidueMw

Spec == Init /\ [][Next]_vars

(***************************************************************************)
(* Properties.                                                             *)
(***************************************************************************)
Constructed == last.op = "polyampholyte" /\ last.exc = "" /\ inst.alive

ResidueSum(abundance) == SumInts(SubSeq(abundance, 1, NGroups - 2))

RatLe(x, y) == x.n * y.d <= y.n * x.d

RatLt(x, y) == x.n * y.d < y.n * x.d

\* C1: whenever an instance exists, under any sequence of pka_data
\* assignments, the groups of IEP_dataset are exactly the rows whose pKa is
\* defined under the scheme pka_data names.
C1_ActiveGroupsFollowScheme ==
    inst.alive =>
        {inst.IEP_dataset[j] : j \in DOMAIN inst.IEP_dataset}
            = {g \in Rows : pKa(table, inst.pka_data, g).def}

\* C2, as stated: the constructor returns an instance exactly when mode is
\* 'protein' and exactly one of abundance and sequence is passed; otherwise
\* it raises and there is no instance.
C2_ExactlyOneInput ==
    last.op = "polyampholyte" =>
        /\ (last.exc = "" /\ inst.alive)
            <=> (last.mode = "protein" /\ last.hasAbundance # last.hasSequence)
        /\ last.exc # "" => ~inst.alive

\* C2, amended: the constructor returns an instance exactly when mode is
\* 'protein', at least one of abundance and sequence is passed and a passed
\* abundance list is no longer than the table; otherwise it raises ValueError
\* and there is no instance.  With both passed the abundance list is used and
\* the sequence is ignored.
C2_AtLeastOneInput ==
    last.op = "polyampholyte" =>
        /\ (last.exc = "" /\ inst.alive)
            <=> /\ last.mode = "protein"
                /\ last.hasAbundance \/ last.hasSequence
                /\ last.hasAbundance => Len(last.abundance) <= NGroups
        /\ last.exc # "" => last.exc = "ValueError" /\ ~inst.alive
        /\ (inst.alive /\ last.hasAbundance) =>
                /\ ~inst.amino_acid_sequence.some
                /\ inst.abundance_input
                     = last.abundance \o Zeros(NGroups - Len(last.abundance))

C2_Witness ==
    /\ Constructed
    /\ last.hasAbundance /\ last.hasSequence
    /\ ResidueSum(inst.abundance_input) > 0

\* C3: for every instance, abundance_norm sums to 1 over the residue rows and
\* each terminus entry is its abundance_input over the residue-only sum.
C3_NormalizedToOne ==
    inst.alive =>
        /\ FEq(NpSum(SubSeq(inst.abundance_norm, 1, NGroups - 2)), Fin(1, 1))
        /\ \A g \in (NGroups - 1)..NGroups :
            /\ inst.abundance_norm[g].kind = "fin"
            /\ inst.abundance_norm[g].n * ResidueSum(inst.abundance_input)
                 = inst.abundance_input[g] * inst.abundance_norm[g].d

Occurrences(sequence, key) ==
    Cardinality({i \in DOMAIN sequence : sequence[i] = key})

StandardCodes == {index[i] : i \in 1..NStandard}

\* C4: an instance built from a sequence s has, for each of the 20 standard
\* codes, the number of occurrences of that character in s, 0 for Hyp and Hyl,
\* 1 for both termini, and number_of_residues = len(s); the 20 counts sum to
\* at most len(s), and to len(s) exactly when s has standard codes only.
C4_SequenceCounts ==
    (Constructed /\ inst.amino_acid_sequence.some) =>
        LET s == inst.amino_acid_sequence.v
            a == inst.abundance_input
            counts == SumInts(SubSeq(a, 1, NStandard))
        IN  /\ Len(a) = NGroups
            /\ \A i \in 1..NStandard : a[i] = Occurrences(s, index[i])
            /\ a[RowOf("Hyp")] = 0 /\ a[RowOf("Hyl")] = 0
            /\ a[RowOf("N_term")] = 1 /\ a[RowOf("C_term")] = 1
            /\ inst.number_of_residues = Some(<<Len(s)>>)
            /\ counts <= Len(s)
            /\ counts = Len(s) <=> \A i \in DOMAIN s : s[i] \in StandardCodes

C4_Witness ==
    /\ Constructed
    /\ inst.amino_acid_sequence.some
    /\ inst.amino_acid_sequence.v = <<"D", "d">>
    /\ inst.abundance_input[RowOf("D")] = 1

SignAt(pH) == Sign(calc_charge(table, pre, Rat(pH, 1)))

\* C5, as stated: calc_IEP never raises and leaves the instance as it was;
\* where charge(lo) and charge(hi) have the same sign it returns nan, where
\* the signs differ it returns a pH in [lo, hi].
C5_SameSignGivesNaN ==
    last.op = "calc_IEP" =>
        /\ last.exc = "" /\ inst = pre
        /\ (SignAt(last.lo) # 2 /\ SignAt(last.hi) # 2) =>
            IF SignAt(last.lo) = SignAt(last.hi)
            THEN last.value.kind = "nan"
            ELSE /\ last.value.kind = "fin"
                 /\ RatLe(Rat(last.lo, 1), last.value)
                 /\ RatLe(last.value, Rat(last.hi, 1))

\* C5, amended: calc_IEP never raises and leaves the instance as it was;
\* where charge(lo) * charge(hi) > 0 it returns nan, and where the product is
\* negative or zero (a charge of exactly zero at an end counts as a bracket,
\* so a charge that is zero at both ends gives lo) it returns a pH in [lo, hi].
C5_PositiveProductGivesNaN ==
    last.op = "calc_IEP" =>
        /\ last.exc = "" /\ inst = pre
        /\ (SignAt(last.lo) # 2 /\ SignAt(last.hi) # 2) =>
            IF SignAt(last.lo) * SignAt(last.hi) > 0
            THEN last.value.kind = "nan"
            ELSE /\ last.value.kind = "fin"
                 /\ RatLe(Rat(last.lo, 1), last.value)
                 /\ RatLe(last.value, Rat(last.hi, 1))
        /\ (SignAt(last.lo) = 0 /\ SignAt(last.hi) = 0) =>
                last.value = Rat(last.lo, 1)

C5_Witness ==
    /\ last.op = "calc_IEP"
    /\ SignAt(last.lo) = 1 /\ SignAt(last.hi) = -1
    /\ last.value.kind = "fin"
    /\ RatLt(Rat(last.lo, 1), last.value)
    /\ RatLt(last.value, Rat(last.hi, 1))

\* C6, as stated: calc_charge_curve raises whenever lo > hi or n < 2, and
\* returns only when lo <= hi and n >= 2, then with n entries in each row.
C6_RangeIsValidated ==
    last.op = "calc_charge_curve" =>
        /\ (last.lo > last.hi \/ last.n < 2) => last.exc # ""
        /\ last.exc = "" =>
            /\ last.lo <= last.hi /\ last.n >= 2
            /\ Len(last.pH) = last.n /\ Len(last.curve) = last.n

\* C6, amended: calc_charge_curve validates neither the order of lo and hi
\* nor n >= 2: it raises (ValueError) exactly when n < 0, whatever lo and hi,
\* and for every n >= 0 it returns rows of exactly n entries each, leaving
\* the instance as it was.
C6_RangeIsNotValidated ==
    last.op = "calc_charge_curve" =>
        /\ last.exc # "" <=> last.n < 0
        /\ last.exc # "" => last.exc = "ValueError"
        /\ last.exc = "" => Len(last.pH) = last.n /\ Len(last.curve) = last.n
        /\ inst = pre

C6_Witness ==
    /\ last.op = "calc_charge_curve"
    /\ last.lo > last.hi /\ last.n = 1
    /\ last.exc = ""
    /\ Len(last.pH) = 1 /\ Len(last.curve) = 1

DefinedMassSum(t, abundance) ==
    SumInts([g \in Rows |->
        IF molar_mass_residue(t, g).def
        THEN abundance[g] * molar_mass_residue(t, g).v ELSE 0])

C8_MeanOverDefinedResidues ==
    last.op = "calc_mean_residue_mw" =>
        LET rows == SelectSeq([g \in 1..(NGroups - 2) |-> g],
                              LAMBDA g : molar_mass_residue(table, g).def)
            residues == NpSum([j \in DOMAIN rows |->
                            FMulInt(molar_mass_residue(table, rows[j]).v,
                                    pre.abundance_norm[rows[j]])])
            termini == FAdd(FMulInt(molar_mass[NGroups - 1],
                                    pre.abundance_norm[NGroups - 1]),
                            FMulInt(molar_mass[NGroups],
                                    pre.abundance_norm[NGroups]))
        IN  FEq(last.value,
                IF pre.amino_acid_sequence.some THEN FAdd(residues, termini)
                ELSE residues)

EquallySpaced ==
    \A i \in 1..(last.n - 1) :
        LET p == last.pH[i]
            q == last.pH[i + 1]
        IN  (last.n - 1) * (q.n * p.d - p.n * q.d) = (last.hi - last.lo) * p.d * q.d

ChargesMatch ==
    \A i \in DOMAIN last.pH :
        last.curve[i] = calc_charge(table, pre, last.pH[i])

\* C9, as stated: calc_charge_curve returns n samples equally spaced from lo
\* to hi inclusive in increasing order, and the charge at each sample is
\* calc_charge of that sample on the same instance.
C9_IncreasingSamples ==
    (last.op = "calc_charge_curve" /\ last.exc = "") =>
        /\ Len(last.pH) = last.n /\ Len(last.curve) = last.n
        /\ last.n >= 1 => /\ last.pH[1] = Rat(last.lo, 1)
                          /\ last.pH[last.n] = Rat(last.hi, 1)
        /\ EquallySpaced
        /\ \A i \in 1..(last.n - 1) : RatLe(last.pH[i], last.pH[i + 1])
        /\ ChargesMatch

\* C9, amended: calc_charge_curve returns n samples, the first lo and, for
\* n >= 2, the last hi, equally spaced, in increasing order when lo < hi, in
\* decreasing order when lo > hi and all equal when lo = hi (a single sample
\* is lo alone), and the charge at each sample is calc_charge of that sample
\* on the same instance.
C9_SamplesFromLoToHi ==
    (last.op = "calc_charge_curve" /\ last.exc = "") =>
        /\ Len(last.pH) = last.n /\ Len(last.curve) = last.n
        /\ last.n >= 1 => last.pH[1] = Rat(last.lo, 1)
        /\ last.n >= 2 => last.pH[last.n] = Rat(last.hi, 1)
        /\ EquallySpaced
        /\ \A i \in 1..(last.n - 1) :
            /\ last.lo < last.hi => RatLt(last.pH[i], last.pH[i + 1])
            /\ last.lo > last.hi => RatLt(last.pH[i + 1], last.pH[i])
            /\ last.lo = last.hi => last.pH[i] = last.pH[i + 1]
        /\ ChargesMatch

C9_Witness ==
    /\ last.op = "calc_charge_curve" /\ last.exc = ""
    /\ last.lo < last.hi /\ last.n = 3
    /\ last.pH[2].d = 2
    /\ last.curve[2].kind = "fin" /\ last.curve[2].coef # {}
    /\ last.curve[1] # last.curve[2]

\* C10: building an instance from an abundance list shorter than the table
\* gives abundance_input = the list followed by zeros, and leaves the caller's
\* list with the length and contents it had before the call.
C10_CallerListUntouched ==
    (Constructed /\ last.hasAbundance /\ Len(last.abundance) < NGroups) =>
        /\ inst.abundance_input
             = last.abundance \o Zeros(NGroups - Len(last.abundance))
        /\ caller = last.abundance

====
